---- MODULE Spec2Model ----
(***************************************************************************)
(* Shopimage: the scan / fix / revert / optimize-all / sync request        *)
(* handlers over the in-memory Shop / ImageLog store.                      *)
(*                                                                         *)
(* The repository holds four revisions of the route handlers.  The         *)
(* variable rev names the revision that is deployed; it is chosen once,    *)
(* at start-up, and every handler below branches on it:                    *)
(*   "reset"  - src/unnamed/part_002 (scan resets optimized rows)          *)
(*   "rescan" - src/unnamed/part_001 (scan deletes and recreates rows)     *)
(*   "sync"   - src/unnamed/part_003 (fix at 0.25, sync endpoints)         *)
(*   "sharp"  - src/Shopimage/server/routes.ts (encoder, upstream sync)    *)
(* Each request handler is one atomic action (one request at a time).      *)
(***************************************************************************)
EXTENDS Integers, Sequences, FiniteSets, TLC

VARIABLES
    rev,             \* the deployed revision of the route handlers
    envToken,        \* process.env.SHOPIFY_ACCESS_TOKEN is set
    shops,           \* MemoryStorage.shops: shop id -> Shop
    shopIdCounter,   \* MemoryStorage.shopIdCounter
    imageLogs,       \* MemoryStorage.imageLogs: image id -> ImageLog
    imageIdCounter,  \* MemoryStorage.imageIdCounter
    now,             \* the wall clock read by new Date()
    resp,            \* the response to the last request
    lastScan,        \* per domain: the image list of its last scan result
    probe,           \* the last two calls of the function under test
    apiKeys,         \* SHOPIFY_API_KEY and SHOPIFY_API_SECRET are both set
    inflight,        \* the OAuth callbacks that await their token exchange
    db,              \* the shops and image_logs tables of DatabaseStorage
    ret,             \* what the last IStorage call gave in either store
    nonceStore,      \* shopify.ts nonceStore: nonce -> shop and createdAt
    clock            \* Date.now(), in milliseconds

vars == <<rev, envToken, shops, shopIdCounter, imageLogs, imageIdCounter,
          now, resp, lastScan, probe, apiKeys, inflight, db, ret, nonceStore,
          clock>>

----------------------------------------------------------------------------
(* Bounds *)

\* the number of requests served in one run (also the last clock value)
MaxRequests == 4

\* the number of rows of a shop, from the first, that requests address
MaxTargets == 2

----------------------------------------------------------------------------
(* Values *)

Revisions == {"reset", "rescan", "sync", "sharp"}

\* a nullable value is the empty tuple (null) or a one-element tuple
Null == <<>>
Some(v) == <<v>>
Val(o) == o[1]

\* JavaScript truthiness of a number: 0 is falsy
Truthy(n) == n # 0

\* Math.round(x * 0.2) for an integer x >= 0 (x/5 is never a half)
RoundFifth(x) == (x + 2) \div 5

\* Math.round(x * 0.25) for an integer x >= 0 (a half rounds up)
RoundQuarter(x) == (x + 2) \div 4

\* the fixed-ratio estimate of the fix handler in each revision
EstimateOptimizedSize(r, originalSize) ==
    IF r \in {"reset", "rescan"} THEN RoundFifth(originalSize)
    ELSE RoundQuarter(originalSize)

\* the byte threshold above which an image counts as heavy
HeavyThreshold(r) ==
    IF r \in {"reset", "rescan"} THEN 500 * 1024 ELSE 1024 * 1024

----------------------------------------------------------------------------
(* The mock catalogs *)

MockImage(name, size, format) ==
    [name |-> name, size |-> size, format |-> format]

MockCatalog10 ==
    << MockImage("product_hero_1.jpg", 2621440, "JPG"),
       MockImage("collection_banner.png", 3145728, "PNG"),
       MockImage("product_detail_2.jpg", 1887436, "JPG"),
       MockImage("lifestyle_shot_3.png", 2359296, "PNG"),
       MockImage("product_zoom_4.jpg", 1572864, "JPG"),
       MockImage("hero_banner.png", 4194304, "PNG"),
       MockImage("category_thumb_5.jpg", 1048576, "JPG"),
       MockImage("product_variant_6.jpg", 943718, "JPG"),
       MockImage("promotional_banner.png", 2097152, "PNG"),
       MockImage("feature_image_7.jpg", 786432, "JPG") >>

MockCatalog6 ==
    << MockImage("premium_watch_hero.jpg", 2850000, "JPG"),
       MockImage("wireless_headphones.png", 4200000, "PNG"),
       MockImage("leather_bag_collection.jpg", 1950000, "JPG"),
       MockImage("modern_sneakers_v2.png", 3100000, "PNG"),
       MockImage("smart_home_speaker.jpg", 1250000, "JPG"),
       MockImage("minimalist_desk_lamp.jpg", 850000, "JPG") >>

\* the descriptor list, were the sizes drawn afresh on every call
generateMockImagesJittered(r, domain) ==
    LET cat == IF r \in {"reset", "rescan"} THEN MockCatalog10
               ELSE MockCatalog6
        base == IF r \in {"reset", "rescan"} THEN 1000000 ELSE 2000000
    IN [i \in 1..Len(cat) |->
          [imageName |-> <<cat[i].name>>,
           originalSize |-> cat[i].size + imageIdCounter,
           format |-> cat[i].format,
           shopifyAssetId |-> base + (i - 1),
           shopifyProductId |-> Null]]

\* the descriptor list generateMockImages returns (the domain is unused)
generateMockImages(r, domain) ==
    LET cat == IF r \in {"reset", "rescan"} THEN MockCatalog10
               ELSE MockCatalog6
        base == IF r \in {"reset", "rescan"} THEN 1000000 ELSE 2000000
    IN [i \in 1..Len(cat) |->
          [imageName |-> <<cat[i].name>>,
           originalSize |-> cat[i].size,
           format |-> cat[i].format,
           shopifyAssetId |-> base + (i - 1),
           shopifyProductId |-> Null]]

----------------------------------------------------------------------------
(* The Shopify Admin products endpoint *)

\* a product image as the products endpoint lists it; width or height 0
\* stands for a missing dimension
LiveImage(id, png, width, height) ==
    [id |-> id, png |-> png, width |-> width, height |-> height]

LiveProduct(id, title, images) ==
    [id |-> id, title |-> title, images |-> images]

\* the product listings the endpoint may answer with
LiveListings ==
    { << LiveProduct(7, "Empty", <<>>) >>,
      << LiveProduct(8, "Pixel", << LiveImage(81, FALSE, 1, 1),
                                    LiveImage(82, TRUE, 1, 1) >>) >>,
      << LiveProduct(9, "Poster", << LiveImage(91, FALSE, 1600, 1200),
                                     LiveImage(92, TRUE, 2000, 2000) >>),
         LiveProduct(10, "Thumb", << LiveImage(93, FALSE, 0, 0),
                                     LiveImage(94, TRUE, 2000, 2000) >>) >> }

\* what the call to the products endpoint can come to
UpstreamOutcomes ==
    { [kind |-> "throw", products |-> <<>>],
      [kind |-> "notok", products |-> <<>>] }
    \cup { [kind |-> "ok", products |-> l] : l \in LiveListings }

\* no call is made
NoUpstream == [kind |-> "none", products |-> <<>>]

\* (width || 800) * (height || 800) * (PNG ? 4 : 3) * 0.15, rounded
EstimatedSize(image) ==
    LET w == IF image.width = 0 THEN 800 ELSE image.width
        h == IF image.height = 0 THEN 800 ELSE image.height
        k == IF image.png THEN 4 ELSE 3
    IN (w * h * k * 15 + 50) \div 100

\* the descriptors of one product's images, in order
ProductDescriptors(r, product) ==
    [i \in 1..Len(product.images) |->
       LET image == product.images[i]
           format == IF image.png THEN "PNG" ELSE "JPG"
       IN [imageName |-> <<product.title, image.id, format>>,
           originalSize |-> EstimatedSize(image),
           format |-> format,
           shopifyAssetId |-> image.id,
           shopifyProductId |->
               IF r = "sharp" THEN Some(product.id) ELSE Null]]

RECURSIVE AllImages(_, _)
AllImages(r, products) ==
    IF products = <<>> THEN <<>>
    ELSE ProductDescriptors(r, Head(products))
             \o AllImages(r, Tail(products))

\* the access token fetchShopifyProducts uses: only the last revision
\* looks at the shop's own token before the process-wide one
HasAccessToken(r, shop) ==
    IF r = "sharp" THEN shop.accessToken # Null \/ envToken
    ELSE envToken

\* fetchShopifyProducts; the reset revision scans the mock catalog only
fetchShopifyProducts(r, domain, hasToken, upstream) ==
    IF r = "reset" \/ ~hasToken THEN generateMockImages(r, domain)
    ELSE IF upstream.kind # "ok" THEN generateMockImages(r, domain)
    ELSE LET allImages == AllImages(r, upstream.products)
         IN IF r \in {"sync", "sharp"} /\ allImages = <<>>
            THEN generateMockImages(r, domain)
            ELSE allImages

----------------------------------------------------------------------------
(* Grading *)

MB == 1024 * 1024

\* the table, were the first count test written the wrong way round
calculateGradeFlipped(r, totalHeavyImages, totalSize) ==
    IF totalHeavyImages = 0 THEN "A"
    ELSE IF totalHeavyImages >= 2 /\ totalSize < 5 * MB THEN "B"
    ELSE IF totalHeavyImages <= 5 /\ totalSize < 10 * MB THEN "C"
    ELSE IF r \in {"sync", "sharp"} THEN "D"
    ELSE IF totalHeavyImages <= 10 /\ totalSize < 20 * MB THEN "D"
    ELSE "F"

calculateGrade(r, totalHeavyImages, totalSize) ==
    IF totalHeavyImages = 0 THEN "A"
    ELSE IF totalHeavyImages <= 2 /\ totalSize < 5 * MB THEN "B"
    ELSE IF totalHeavyImages <= 5 /\ totalSize < 10 * MB THEN "C"
    ELSE IF r \in {"sync", "sharp"} THEN "D"
    ELSE IF totalHeavyImages <= 10 /\ totalSize < 20 * MB THEN "D"
    ELSE "F"

----------------------------------------------------------------------------
(* Sequences of ImageLog rows *)

\* images.filter(img => img.originalSize > threshold)
HeavierThan(s, threshold) ==
    LET Heavy(img) == img.originalSize > threshold
    IN SelectSeq(s, Heavy)

\* images.filter(img => img.status === status)
WithStatus(s, status) ==
    LET Has(img) == img.status = status
    IN SelectSeq(s, Has)

RECURSIVE SumSizes(_)
SumSizes(s) ==
    IF s = <<>> THEN 0 ELSE Head(s).originalSize + SumSizes(Tail(s))

\* the insertion, were the comparator a.originalSize - b.originalSize
RECURSIVE InsertAscending(_, _)
InsertAscending(x, s) ==
    IF s = <<>> THEN <<x>>
    ELSE IF Head(s).originalSize <= x.originalSize
         THEN <<Head(s)>> \o InsertAscending(x, Tail(s))
    ELSE <<x>> \o s

\* x goes after every element that is at least as large (a stable sort)
RECURSIVE InsertDescending(_, _)
InsertDescending(x, s) ==
    IF s = <<>> THEN <<x>>
    ELSE IF Head(s).originalSize >= x.originalSize
         THEN <<Head(s)>> \o InsertDescending(x, Tail(s))
    ELSE <<x>> \o s

\* Array.prototype.sort((a, b) => b.originalSize - a.originalSize)
RECURSIVE SortDescending(_)
SortDescending(s) ==
    IF s = <<>> THEN <<>>
    ELSE InsertDescending(s[Len(s)], SortDescending(SubSeq(s, 1, Len(s) - 1)))

----------------------------------------------------------------------------
(* Scan requests *)

\* a url is the sequence of its parts: an optional scheme, an optional
\* "www.", the host name and an optional path
Schemes == {"http://", "https://"}

\* String.prototype.toLowerCase, were it to leave its text as it is
ToLowerCaseKeep(part) == part

\* String.prototype.toLowerCase on the parts that are used
ToLowerCase(part) ==
    CASE part = "Shop-A.myshopify.com" -> "shop-a.myshopify.com"
      [] part = "My Shop" -> "my shop"
      [] OTHER -> part

\* the parts that begin with a slash
IsPath(part) == part \in {"/products"}

\* the parts that hold a character no host name may hold (a space)
ForbiddenHost(part) == part \in {"my shop", "My Shop"}

\* the parts of a text before its first path
RECURSIVE BeforePath(_)
BeforePath(parts) ==
    IF parts = <<>> \/ IsPath(Head(parts)) THEN <<>>
    ELSE <<Head(parts)>> \o BeforePath(Tail(parts))

\* replace(/^www\./, "")
StripWww(parts) ==
    IF parts # <<>> /\ Head(parts) = "www." THEN Tail(parts) ELSE parts

\* new URL(text).hostname of a text that begins with a scheme: Null where
\* the constructor throws (no host, or a forbidden character in the host)
URLHostname(parts) ==
    LET host == BeforePath(Tail(parts))
    IN IF host = <<>> \/ \E k \in 1..Len(host) : ForbiddenHost(host[k])
       THEN Null
       ELSE Some(host)

\* extractDomain: lower case, a scheme put in front where there is none,
\* the parsed host name without a leading "www."; where the parse throws,
\* the text as given without scheme and "www.", up to the first slash
extractDomain(url) ==
    LET lower == [k \in 1..Len(url) |-> ToLowerCase(url[k])]
        cleanUrl == IF lower # <<>> /\ Head(lower) \in Schemes
                    THEN lower ELSE <<"https://">> \o lower
        hostname == URLHostname(cleanUrl)
        noScheme == IF url # <<>> /\ Head(url) \in Schemes
                    THEN Tail(url) ELSE url
    IN IF hostname # Null
       THEN Head(StripWww(Val(hostname)))
       ELSE Head(BeforePath(StripWww(noScheme)) \o <<"">>)

\* the bodies of the scan requests: the url is missing in the first
ScanBodies ==
    { [url |-> Null],
      [url |-> Some(<<"https://", "www.", "Shop-A.myshopify.com", "/products">>)],
      [url |-> Some(<<"shop-a.myshopify.com">>)],
      [url |-> Some(<<"shop-b.myshopify.com">>)] }

\* scanRequestSchema.safeParse: url must be a url or a non-empty string
scanRequestSchema(body) == body.url # Null /\ Val(body.url) # <<>>

----------------------------------------------------------------------------
(* MemoryStorage *)

\* the ids of a map, in insertion order (ids are handed out increasing)
RECURSIVE Ascending(_)
Ascending(ids) ==
    IF ids = {} THEN <<>>
    ELSE LET least == CHOOSE i \in ids : \A j \in ids : i <= j
         IN <<least>> \o Ascending(ids \ {least})

\* the lookup, were it to pass over the shops that hold no access token
getShopByDomainInstalled(allShops, domain) ==
    LET found == {i \in DOMAIN allShops :
                     /\ allShops[i].domain = domain
                     /\ allShops[i].accessToken # Null}
    IN IF found = {} THEN 0
       ELSE CHOOSE i \in found : \A j \in found : i <= j

\* getShopByDomain: the id of the first shop with that domain, 0 if none
getShopByDomain(allShops, domain) ==
    LET found == {i \in DOMAIN allShops : allShops[i].domain = domain}
    IN IF found = {} THEN 0
       ELSE CHOOSE i \in found : \A j \in found : i <= j

\* createShop: the Shop row the store builds; the in-memory store sets
\* accessToken and scope to null whatever the caller passes
createShop(domain, lastScanAt, time) ==
    [domain |-> domain,
     accessToken |-> Null,
     scope |-> Null,
     isPro |-> 0,
     lastScanAt |-> lastScanAt,
     createdAt |-> time]

\* updateShopScanTime
updateShopScanTime(allShops, id, time) ==
    IF id \in DOMAIN allShops
    THEN [allShops EXCEPT ![id].lastScanAt = Some(time)]
    ELSE allShops

\* getImageLogsByShopId: the rows of a shop, in insertion order
getImageLogsByShopId(logs, shopId) ==
    LET ids == Ascending({i \in DOMAIN logs : logs[i].shopId = shopId})
    IN [k \in 1..Len(ids) |-> logs[ids[k]]]

\* createImageLog: the ImageLog row the store builds from a descriptor; the
\* descriptor's shopifyProductId is not copied, so a row never has one
createImageLog(id, shopId, img, time) ==
    [id |-> id,
     shopId |-> shopId,
     shopifyAssetId |-> img.shopifyAssetId,
     imageName |-> img.imageName,
     originalSize |-> img.originalSize,
     optimizedSize |-> Null,
     format |-> img.format,
     status |-> "pending",
     originalS3Key |-> Null,
     optimizedAt |-> Null,
     createdAt |-> time,
     syncStatus |-> Null,
     shopifyProductId |-> Null,
     optimizedData |-> FALSE]

\* updateImageLogStatus, on the row found under the id: optimizedSize is
\* passed as a nullable number (Null when the argument is omitted)
updateImageLogStatus(log, status, optimizedSize, time) ==
    IF status = "optimized" /\ optimizedSize # Null
                            /\ Truthy(Val(optimizedSize))
    THEN [log EXCEPT !.status = status,
                     !.optimizedSize = optimizedSize,
                     !.optimizedAt = Some(time)]
    ELSE IF status = "pending"
    THEN [log EXCEPT !.status = status,
                     !.optimizedSize = Null,
                     !.optimizedAt = Null]
    ELSE [log EXCEPT !.status = status]

\* the delete, were it to leave out the test of the shop id
deleteImageLogsOfAll(logs, shopId) ==
    [i \in {j \in DOMAIN logs : FALSE} |-> logs[i]]

\* deleteImageLogsByShopId: the rows of the other shops stay
deleteImageLogsByShopId(logs, shopId) ==
    LET keep == {i \in DOMAIN logs : logs[i].shopId # shopId}
    IN [i \in keep |-> logs[i]]

----------------------------------------------------------------------------
(* DatabaseStorage *)

\* the two tables, empty; the ids the database generates are modelled by
\* the position of the row among the rows ever inserted
EmptyTables ==
    [shops |-> <<>>, shopSeq |-> 1, imageLogs |-> <<>>, imageSeq |-> 1]

\* what a call of a store method comes to: it throws, or it returns a
\* value (Null for undefined and for void)
Threw == [threw |-> TRUE, value |-> Null]
Returned(value) == [threw |-> FALSE, value |-> value]

\* no call was made yet
NoCall == [op |-> "none", mem |-> Returned(Null), db |-> Returned(Null)]

\* an InsertShop as handleCallback builds it
InsertShop(domain, accessToken, scope) ==
    [domain |-> domain, accessToken |-> accessToken, scope |-> scope,
     lastScanAt |-> Null]

\* DatabaseStorage.createShop: insert(shops).values(shop).returning(); the
\* unique index on domain rejects a second row of a domain
DatabaseCreateShop(tables, shop, time) ==
    IF \E i \in DOMAIN tables.shops : tables.shops[i].domain = shop.domain
    THEN [tables |-> tables, result |-> Threw]
    ELSE LET id == tables.shopSeq
             row == [domain |-> shop.domain,
                     accessToken |-> shop.accessToken,
                     scope |-> shop.scope,
                     isPro |-> 0,
                     lastScanAt |-> shop.lastScanAt,
                     createdAt |-> time]
         IN [tables |->
                [tables EXCEPT
                    !.shops = [i \in (DOMAIN tables.shops) \cup {id} |->
                                 IF i = id THEN row ELSE tables.shops[i]],
                    !.shopSeq = id + 1],
             result |-> Returned(Some([id |-> id] @@ row))]

\* DatabaseStorage.createImageLog: insert(imageLogs).values(imageLog); the
\* foreign key on shop_id rejects a row of a shop that does not exist
DatabaseCreateImageLog(tables, shopId, img, time) ==
    IF shopId \notin DOMAIN tables.shops
    THEN [tables |-> tables, result |-> Threw]
    ELSE LET id == tables.imageSeq
             row == createImageLog(id, shopId, img, time)
         IN [tables |->
                [tables EXCEPT
                    !.imageLogs =
                        [i \in (DOMAIN tables.imageLogs) \cup {id} |->
                           IF i = id THEN row ELSE tables.imageLogs[i]],
                    !.imageSeq = id + 1],
             result |-> Returned(Some(row))]

\* DatabaseStorage.updateImageLogStatus: update ... where id = ... returning,
\* and result[0] of it: undefined when no row has the id
DatabaseUpdateImageLogStatus(tables, id, status, optimizedSize, time) ==
    IF id \notin DOMAIN tables.imageLogs
    THEN [tables |-> tables, result |-> Returned(Null)]
    ELSE LET row == updateImageLogStatus(tables.imageLogs[id], status,
                                         optimizedSize, time)
         IN [tables |-> [tables EXCEPT !.imageLogs[id] = row],
             result |-> Returned(Some(row))]

\* MemoryStorage.updateImageLogStatus, the whole method: it throws "Image
\* log not found" when no row has the id
MemoryUpdateImageLogStatus(logs, id, status, optimizedSize, time) ==
    IF id \notin DOMAIN logs
    THEN [logs |-> logs, result |-> Threw]
    ELSE LET row == updateImageLogStatus(logs[id], status, optimizedSize,
                                         time)
         IN [logs |-> [logs EXCEPT ![id] = row],
             result |-> Returned(Some(row))]

----------------------------------------------------------------------------
(* Responses *)

\* a response: the status code and the fields of the JSON bodies; calls
\* lists the outbound calls the handler made while serving the request and
\* upstream is the status the upstream write was answered with, if any
Response(op, code, target) ==
    [op |-> op, code |-> code, target |-> target,
     shopId |-> 0, fetched |-> <<>>, images |-> <<>>,
     totalHeavyImages |-> 0, grade |-> "",
     row |-> Null, optimizedCount |-> 0, totalSaved |-> 0,
     calls |-> <<>>, query |-> Null, session |-> Null,
     domain |-> "", tokenData |-> Null, upstream |-> 0]

\* the names and sizes of a list of rows, in order
Shape(rows) ==
    [k \in 1..Len(rows) |-> <<rows[k].imageName, rows[k].originalSize>>]

----------------------------------------------------------------------------
(* POST /api/scan *)

\* the rows the reset revision answers with when the shop has rows: the
\* optimized ones are set back to pending, the others are left as they are
ResetRows(logs, shopId, time) ==
    [i \in DOMAIN logs |->
       IF logs[i].shopId = shopId /\ logs[i].status = "optimized"
       THEN updateImageLogStatus(logs[i], "pending", Null, time)
       ELSE logs[i]]

\* the store after one createImageLog per fetched image
CreateRows(logs, firstId, shopId, fetched, time) ==
    LET newIds == firstId..(firstId + Len(fetched) - 1)
    IN [i \in (DOMAIN logs) \cup newIds |->
          IF i \in newIds
          THEN createImageLog(i, shopId, fetched[i - firstId + 1], time)
          ELSE logs[i]]

\* the image list, heavy count and grade of the scan result
ScanResult(r, images) ==
    IF r \in {"reset", "rescan"}
    THEN LET heavyImages == HeavierThan(images, HeavyThreshold(r))
         IN [images |-> SortDescending(heavyImages),
             totalHeavyImages |-> Len(heavyImages),
             grade |-> calculateGrade(r, Len(heavyImages),
                                      SumSizes(heavyImages))]
    ELSE [images |-> SortDescending(images),
          totalHeavyImages |-> Len(HeavierThan(images, HeavyThreshold(r))),
          grade |-> calculateGrade(r, Len(images), SumSizes(images))]

Scan(body) ==
    /\ now < MaxRequests
    /\ now' = now + 1
    /\ UNCHANGED <<rev, envToken, probe, apiKeys, inflight,
                   db, ret,
                   nonceStore, clock>>
    /\ IF ~scanRequestSchema(body)
       THEN /\ resp' = Response("scan", 400, 0)
            /\ UNCHANGED <<shops, shopIdCounter, imageLogs, imageIdCounter,
                           lastScan>>
       ELSE \E domain \in {extractDomain(Val(body.url))} :
            \E found \in {getShopByDomain(shops, domain)} :
            \E shopId \in {IF found = 0 THEN shopIdCounter ELSE found} :
            \E shops1 \in
                 {IF found = 0
                  THEN [i \in (DOMAIN shops) \cup {shopId} |->
                          IF i = shopId
                          THEN createShop(domain, Null, now + 1)
                          ELSE shops[i]]
                  ELSE IF rev \in {"reset", "rescan"}
                  THEN updateShopScanTime(shops, shopId, now + 1)
                  ELSE shops} :
            \E existingImages \in {getImageLogsByShopId(imageLogs, shopId)} :
            \E hasToken \in {HasAccessToken(rev, shops1[shopId])} :
            \E refetch \in {rev # "reset" \/ existingImages = <<>>} :
            \E upstream \in (IF rev # "reset" /\ hasToken
                             THEN UpstreamOutcomes ELSE {NoUpstream}) :
            \E fetched \in
                 {IF refetch
                  THEN fetchShopifyProducts(rev, domain, hasToken, upstream)
                  ELSE <<>>} :
            \E logs1 \in
                 {IF refetch
                  THEN CreateRows(deleteImageLogsByShopId(imageLogs, shopId),
                                  imageIdCounter, shopId, fetched, now + 1)
                  ELSE ResetRows(imageLogs, shopId, now + 1)} :
            \E images \in {getImageLogsByShopId(logs1, shopId)} :
            \E result \in {ScanResult(rev, images)} :
               /\ shops' = shops1
               /\ shopIdCounter' =
                      IF found = 0 THEN shopIdCounter + 1 ELSE shopIdCounter
               /\ imageLogs' = logs1
               /\ imageIdCounter' = imageIdCounter + Len(fetched)
               /\ resp' = [Response("scan", 200, shopId) EXCEPT
                             !.shopId = shopId,
                             !.fetched = fetched,
                             !.images = result.images,
                             !.totalHeavyImages = result.totalHeavyImages,
                             !.grade = result.grade,
                             !.calls =
                                 (IF rev \in {"sync", "sharp"}
                                  THEN <<"pagespeed">> ELSE <<>>)
                                 \o (IF rev # "reset" /\ hasToken
                                     THEN <<"products">> ELSE <<>>)]
               /\ lastScan' = [lastScan EXCEPT ![domain] =
                                 Some([shape |-> Shape(result.images),
                                       token |-> hasToken,
                                       scans |-> IF lastScan[domain] = Null
                                                 THEN 1
                                                 ELSE Val(lastScan[domain]).scans + 1])]

----------------------------------------------------------------------------
(* POST /api/images/:id/fix *)

\* the ids a request can name: the first MaxTargets rows of each shop, as
\* GET /api/shops/:domain lists them, and an id no row has
ListedIds(shopId) ==
    LET rows == getImageLogsByShopId(imageLogs, shopId)
    IN {rows[k].id : k \in 1..(IF Len(rows) < MaxTargets
                               THEN Len(rows) ELSE MaxTargets)}

ImageIds == UNION {ListedIds(shopId) : shopId \in DOMAIN shops}
                \cup {imageIdCounter}

\* what downloading and re-encoding the image can come to in the encoder
\* revision: a failure, or the byte lengths of the download, of the WebP
\* output and of the JPEG output
EncoderOutcomes ==
    { [ok |-> FALSE, original |-> 0, webp |-> 0, jpeg |-> 0],
      [ok |-> TRUE, original |-> 1000, webp |-> 700, jpeg |-> 900],
      [ok |-> TRUE, original |-> 1000, webp |-> 1200, jpeg |-> 800],
      [ok |-> TRUE, original |-> 1000, webp |-> 1200, jpeg |-> 1100] }

\* the encoder is called by the last revision only
EncoderOutcomesOf(r) ==
    IF r = "sharp" THEN EncoderOutcomes
    ELSE {[ok |-> FALSE, original |-> 0, webp |-> 0, jpeg |-> 0]}

\* the length of the buffer the encoder revision keeps
EncodedSize(enc) ==
    IF enc.webp >= enc.original THEN enc.jpeg ELSE enc.webp

\* does this revision reject a fix of an optimized image
FixRejectsOptimized(r) == r \in {"reset", "rescan"}

\* the optimizedSize the fix handler passes to the store
FixOptimizedSize(r, log, enc) ==
    IF r = "sharp" /\ enc.ok THEN EncodedSize(enc)
    ELSE EstimateOptimizedSize(r, log.originalSize)

Fix(id, enc) ==
    /\ now < MaxRequests
    /\ now' = now + 1
    /\ UNCHANGED <<rev, envToken, shops, shopIdCounter, imageIdCounter,
                   lastScan, probe, apiKeys, inflight,
                   db, ret,
                   nonceStore, clock>>
    /\ IF id \notin DOMAIN imageLogs
       THEN /\ resp' = Response("fix", 404, id)
            /\ UNCHANGED imageLogs
       ELSE IF FixRejectsOptimized(rev) /\ imageLogs[id].status = "optimized"
       THEN /\ resp' = Response("fix", 400, id)
            /\ UNCHANGED imageLogs
       ELSE \E optimizedSize \in {FixOptimizedSize(rev, imageLogs[id], enc)} :
            \E updated \in {updateImageLogStatus(imageLogs[id], "optimized",
                                       Some(optimizedSize), now + 1)} :
            \E stored \in {IF rev = "sharp" /\ enc.ok
                           THEN [updated EXCEPT !.optimizedData = TRUE]
                           ELSE updated} :
               /\ imageLogs' = [imageLogs EXCEPT ![id] = stored]
               /\ resp' = [Response("fix", 200, id) EXCEPT
                             !.row = Some(stored),
                             !.calls = IF rev = "sharp"
                                       THEN <<"download">> ELSE <<>>]

----------------------------------------------------------------------------
(* POST /api/images/:id/revert *)

\* the revisions that have the revert route
HasRevert(r) == r \in {"reset", "rescan"}

\* the check, were it written as a test for "pending"
RevertRejectsPendingOnly(log) == log.status = "pending"

\* if (imageLog.status !== "optimized") return 400
RevertRejects(log) == log.status # "optimized"

Revert(id) ==
    /\ HasRevert(rev)
    /\ now < MaxRequests
    /\ now' = now + 1
    /\ UNCHANGED <<rev, envToken, shops, shopIdCounter, imageIdCounter,
                   lastScan, probe, apiKeys, inflight,
                   db, ret,
                   nonceStore, clock>>
    /\ IF id \notin DOMAIN imageLogs
       THEN /\ resp' = Response("revert", 404, id)
            /\ UNCHANGED imageLogs
       ELSE IF RevertRejects(imageLogs[id])
       THEN /\ resp' = Response("revert", 400, id)
            /\ UNCHANGED imageLogs
       ELSE \E updated \in {updateImageLogStatus(imageLogs[id], "reverted", Null,
                                       now + 1)} :
               /\ imageLogs' = [imageLogs EXCEPT ![id] = updated]
               /\ resp' = [Response("revert", 200, id) EXCEPT
                             !.row = Some(updated)]

----------------------------------------------------------------------------
(* POST /api/shops/:shopId/optimize-all *)

\* the shop ids a request can name: every id handed out so far and one more
ShopIds == 1..shopIdCounter

\* the revisions that have the optimize-all route
HasOptimizeAll(r) == r = "rescan"

RECURSIVE SumSaved(_, _)
SumSaved(r, pendingImages) ==
    IF pendingImages = <<>> THEN 0
    ELSE (Head(pendingImages).originalSize
            - EstimateOptimizedSize(r, Head(pendingImages).originalSize))
         + SumSaved(r, Tail(pendingImages))

OptimizeAll(shopId) ==
    /\ HasOptimizeAll(rev)
    /\ now < MaxRequests
    /\ now' = now + 1
    /\ UNCHANGED <<rev, envToken, shops, shopIdCounter, imageIdCounter,
                   lastScan, probe, apiKeys, inflight,
                   db, ret,
                   nonceStore, clock>>
    /\ \E images \in {getImageLogsByShopId(imageLogs, shopId)} :
       \E pendingImages \in {WithStatus(images, "pending")} :
       \E optimizedImages \in
            {[k \in 1..Len(pendingImages) |->
                updateImageLogStatus(pendingImages[k], "optimized",
                    Some(EstimateOptimizedSize(rev,
                             pendingImages[k].originalSize)), now + 1)]} :
       \E byId \in {[i \in {optimizedImages[k].id :
                               k \in 1..Len(optimizedImages)} |->
                       CHOOSE k \in 1..Len(optimizedImages) :
                           optimizedImages[k].id = i]} :
          /\ imageLogs' =
               [i \in DOMAIN imageLogs |->
                  IF i \in DOMAIN byId THEN optimizedImages[byId[i]]
                  ELSE imageLogs[i]]
          /\ resp' = [Response("optimize-all", 200, shopId) EXCEPT
                        !.shopId = shopId,
                        !.optimizedCount = Len(optimizedImages),
                        !.totalSaved = SumSaved(rev, pendingImages),
                        !.images = optimizedImages]

----------------------------------------------------------------------------
(* POST /api/images/:id/sync *)

\* the revisions that have the sync route
HasSync(r) == r \in {"sync", "sharp"}

\* the check, were it left out as it is in the fix handler
SyncRejectsNothing(log) == FALSE

\* if (imageLog.status !== "optimized") return 400
SyncRejects(log) == log.status # "optimized"

\* getShopById: the id if a shop has it, 0 if none
getShopById(allShops, id) == IF id \in DOMAIN allShops THEN id ELSE 0

\* updateImageLogSyncStatus on a known id
updateImageLogSyncStatus(logs, id, syncStatus) ==
    [logs EXCEPT ![id].syncStatus = Some(syncStatus)]

\* what the outbound calls of a sync can come to: the download of the
\* image (when the row holds no encoded bytes) and the status of the PUT
SyncOutcomes ==
    [download : BOOLEAN, put : {200, 401, 403, 500}]

\* the fallback test, were it left out
MissingProductIdNever(log) == FALSE

\* if (!productId): the row holds no product id
MissingProductId(log) == log.shopifyProductId = Null

\* the access token the sync handler uses
SyncHasToken(r, shop) ==
    IF r = "sharp" THEN shop.accessToken # Null \/ envToken
    ELSE envToken

Sync(id) ==
    /\ HasSync(rev)
    /\ now < MaxRequests
    /\ now' = now + 1
    /\ UNCHANGED <<rev, envToken, shops, shopIdCounter, imageIdCounter,
                   lastScan, probe, apiKeys, inflight,
                   db, ret,
                   nonceStore, clock>>
    /\ IF id \notin DOMAIN imageLogs
       THEN /\ resp' = Response("sync", 404, id)
            /\ UNCHANGED imageLogs
       ELSE IF SyncRejects(imageLogs[id])
       THEN /\ resp' = Response("sync", 400, id)
            /\ UNCHANGED imageLogs
       ELSE IF getShopById(shops, imageLogs[id].shopId) = 0
       THEN /\ resp' = Response("sync", 404, id)
            /\ UNCHANGED imageLogs
       ELSE IF \/ ~SyncHasToken(rev, shops[imageLogs[id].shopId])
               \/ rev = "sync"
               \/ MissingProductId(imageLogs[id])
       THEN \* marked synced without an upstream write
            /\ imageLogs' = updateImageLogSyncStatus(imageLogs, id, "synced")
            /\ resp' = [Response("sync", 200, id) EXCEPT
                          !.row = Some(imageLogs'[id])]
       ELSE \E out \in SyncOutcomes :
            IF ~imageLogs[id].optimizedData /\ ~out.download
            THEN \* the download for the re-encoding throws
                 /\ resp' = [Response("sync", 500, id) EXCEPT
                               !.calls = <<"download">>]
                 /\ UNCHANGED imageLogs
            ELSE
            \E calls \in {(IF imageLogs[id].optimizedData
                           THEN <<>> ELSE <<"download">>) \o <<"put">>} :
            \E logs1 \in {[imageLogs EXCEPT ![id].optimizedData = TRUE]} :
               IF out.put \in {200, 401, 403}
               THEN /\ imageLogs' =
                         updateImageLogSyncStatus(logs1, id, "synced")
                    /\ resp' = [Response("sync", 200, id) EXCEPT
                                  !.row = Some(imageLogs'[id]),
                                  !.calls = calls,
                                  !.upstream = out.put]
               ELSE /\ imageLogs' = logs1
                    /\ resp' = [Response("sync", 500, id) EXCEPT
                                  !.calls = calls,
                                  !.upstream = out.put]

----------------------------------------------------------------------------
(* POST /api/shops/:shopId/sync-all *)

\* getImageLogsByShopId(parseInt(shopId)) of the sync revision: the store's
\* shop ids are "shop_1", "shop_2", ..., parseInt makes NaN of each, and no
\* row's shopId is equal to NaN
getImageLogsByParsedShopId(logs, shopId) ==
    LET EqualsNaN(log) == FALSE
    IN SelectSeq(getImageLogsByShopId(logs, shopId), EqualsNaN)

\* what the upstream write of an image comes to in a bulk sync: fetch
\* returns a response (whatever its status), or it throws
SyncAllOutcomes == {"returns", "throws"}

\* is the image marked synced: without token or product id it is, else it
\* is when the upstream write returned
SyncAllMarks(r, shop, log, out) ==
    \/ r = "sync"
    \/ ~SyncHasToken(r, shop)
    \/ MissingProductId(log)
    \/ out = "returns"

SyncAll(shopId, out) ==
    /\ HasSync(rev)
    /\ now < MaxRequests
    /\ now' = now + 1
    /\ UNCHANGED <<rev, envToken, shops, shopIdCounter, imageIdCounter,
                   lastScan, probe, apiKeys, inflight,
                   db, ret,
                   nonceStore, clock>>
    /\ IF rev = "sharp" /\ getShopById(shops, shopId) = 0
       THEN /\ resp' = Response("sync-all", 404, shopId)
            /\ UNCHANGED imageLogs
       ELSE \E images \in
                 {IF rev = "sync"
                  THEN getImageLogsByParsedShopId(imageLogs, shopId)
                  ELSE getImageLogsByShopId(imageLogs, shopId)} :
            \E optimizedImages \in {WithStatus(images, "optimized")} :
            IF optimizedImages = <<>>
            THEN /\ resp' = Response("sync-all", 400, shopId)
                 /\ UNCHANGED imageLogs
            ELSE \E synced \in
                      {{optimizedImages[k].id : k \in
                          {j \in 1..Len(optimizedImages) :
                              SyncAllMarks(rev, shops[shopId],
                                           optimizedImages[j], out)}}} :
                 /\ imageLogs' =
                      [i \in DOMAIN imageLogs |->
                         IF i \in synced
                         THEN [imageLogs[i] EXCEPT
                                  !.syncStatus = Some("synced")]
                         ELSE imageLogs[i]]
                 /\ resp' = [Response("sync-all", 200, shopId) EXCEPT
                               !.shopId = shopId,
                               !.optimizedCount = Cardinality(synced)]

----------------------------------------------------------------------------
(* Shopify OAuth: GET /api/shopify/callback and GET /api/shopify/session *)

\* the revisions whose routes register the OAuth handlers: the sync
\* revision is deployed with src/server/shopify.ts, the encoder revision
\* with src/Shopimage/server/shopify.ts
HasOAuth(r) == r \in {"sync", "sharp"}

\* the number of callbacks that may await their token exchange at a time
MaxInFlight == 2

\* the number of times the clock of the nonce store moves on
MaxTicks == 3

\* the characters of the strings a shop parameter takes
Spelling(str) ==
    CASE str = "not-a-shop" ->
            <<"n", "o", "t", "-", "a", "-", "s", "h", "o", "p">>
      [] str = "shop-a.myshopify.com" ->
            <<"s", "h", "o", "p", "-", "a", ".", "m", "y", "s", "h", "o",
              "p", "i", "f", "y", ".", "c", "o", "m">>
      [] str = "-a.myshopify.com" ->
            <<"-", "a", ".", "m", "y", "s", "h", "o", "p", "i", "f", "y",
              ".", "c", "o", "m">>
      [] str = ".myshopify.com" ->
            <<".", "m", "y", "s", "h", "o", "p", "i", "f", "y", ".", "c",
              "o", "m">>

\* [a-zA-Z0-9]
Alnum ==
    {"a", "b", "c", "d", "e", "f", "g", "h", "i", "j", "k", "l", "m",
     "n", "o", "p", "q", "r", "s", "t", "u", "v", "w", "x", "y", "z",
     "A", "B", "C", "D", "E", "F", "G", "H", "I", "J", "K", "L", "M",
     "N", "O", "P", "Q", "R", "S", "T", "U", "V", "W", "X", "Y", "Z",
     "0", "1", "2", "3", "4", "5", "6", "7", "8", "9"}

\* the test, were the pattern /^[a-zA-Z0-9]/ with no suffix and no end
validateShopDomainPrefix(shop) == Spelling(shop)[1] \in Alnum

\* /^[a-zA-Z0-9][a-zA-Z0-9-]*\.myshopify\.com$/.test(shop)
validateShopDomain(shop) ==
    LET c == Spelling(shop)
        suffix == Spelling(".myshopify.com")
        label == Len(c) - Len(suffix)
    IN /\ label >= 1
       /\ SubSeq(c, label + 1, Len(c)) = suffix
       /\ c[1] \in Alnum
       /\ \A k \in 2..label : c[k] \in Alnum \cup {"-"}

\* MAX_TIMESTAMP_AGE_SEC
MAX_TIMESTAMP_AGE_SEC == 60

\* a timestamp parameter (a non-empty string): whether parseInt gives a
\* number and, if so, how many seconds the server's clock is past it
Timestamp(number, age) == [number |-> number, age |-> age]

\* verifyTimestamp
verifyTimestamp(timestamp) ==
    /\ timestamp.number
    /\ (IF timestamp.age < 0 THEN 0 - timestamp.age ELSE timestamp.age)
           <= MAX_TIMESTAMP_AGE_SEC

NONCE_EXPIRY_MS == 600000

\* the entries of the nonce store that are older than the expiry
Expired(store, time) ==
    {n \in DOMAIN store : time - store[n].createdAt > NONCE_EXPIRY_MS}

\* storeNonce: set the entry, then sweep the expired ones
storeNonce(store, nonce, shop, time) ==
    LET set == [n \in DOMAIN store \cup {nonce} |->
                   IF n = nonce THEN [shop |-> shop, createdAt |-> time]
                   ELSE store[n]]
    IN [n \in DOMAIN set \ Expired(set, time) |-> set[n]]

\* validateNonce, were it to leave the entry in the store
validateNonceKeep(store, nonce, shop, time) ==
    IF nonce \notin DOMAIN store
    THEN [store |-> store, result |-> FALSE]
    ELSE [store |-> store,
          result |-> /\ time - store[nonce].createdAt <= NONCE_EXPIRY_MS
                     /\ store[nonce].shop = shop]

\* validateNonce: false for an unknown nonce, false (and deleted) for an
\* expired one, false for another shop's, else deleted and true
validateNonce(store, nonce, shop, time) ==
    LET without == [n \in DOMAIN store \ {nonce} |-> store[n]]
    IN IF nonce \notin DOMAIN store
       THEN [store |-> store, result |-> FALSE]
       ELSE IF time - store[nonce].createdAt > NONCE_EXPIRY_MS
       THEN [store |-> without, result |-> FALSE]
       ELSE IF store[nonce].shop # shop
       THEN [store |-> store, result |-> FALSE]
       ELSE [store |-> without, result |-> TRUE]

\* verifyHmac: false without the secret or without an hmac parameter
verifyHmac(query) == apiKeys /\ query.hmac = Some("signed")

\* which of its three checks each revision of handleCallback still calls:
\* the nonce and the HMAC check are commented out in both
ValidatesNonce(r) == FALSE
ValidatesHmac(r) == FALSE

\* the handler, were the timestamp check commented out in both revisions
ValidatesTimestampNever(r) == FALSE

\* the timestamp check is commented out in src/server/shopify.ts only
ValidatesTimestamp(r) == r = "sharp"

\* req.query of a callback; every parameter is a string or missing
Query(shop, code, state, timestamp, hmac) ==
    [shop |-> shop, code |-> code, state |-> state,
     timestamp |-> timestamp, hmac |-> hmac]

CallbackQueries ==
    { Query(Null, Some("c1"), Some("issued"), Null, Null),
      Query(Some("shop-a.myshopify.com"), Null, Some("issued"), Null, Null),
      Query(Some("shop-a.myshopify.com"), Some(""), Some("issued"), Null, Null),
      Query(Some("shop-a.myshopify.com"), Some("c1"), Null, Null, Null),
      Query(Some("not-a-shop"), Some("c1"), Some("issued"), Null, Null),
      Query(Some("-a.myshopify.com"), Some("c1"), Some("issued"), Null, Null) }
    \cup
    { Query(Some("shop-a.myshopify.com"), Some("c1"), Some(state),
            timestamp, hmac) :
        state \in {"issued", "forged"},
        timestamp \in {Null, Some(Timestamp(TRUE, 0)),
                       Some(Timestamp(TRUE, 61)),
                       Some(Timestamp(FALSE, 0))},
        hmac \in {Null, Some("forged")} }

\* JavaScript truthiness of a query parameter: missing and "" are falsy
Present(param) == param # Null /\ Val(param) # ""

\* what the token exchange can come to: the call throws, the answer is not
\* ok, or it carries an access token and the granted scope
ExchangeOutcomes ==
    { [kind |-> "throw", access_token |-> "", scope |-> ""],
      [kind |-> "notok", access_token |-> "", scope |-> ""] }
    \cup { [kind |-> "ok", access_token |-> t, scope |-> "read_products"] :
             t \in {"shpat_1", "shpat_2"} }

\* updateShopToken
updateShopToken(allShops, id, accessToken, scope) ==
    IF id \in DOMAIN allShops
    THEN [allShops EXCEPT ![id].accessToken = Some(accessToken),
                          ![id].scope = Some(scope)]
    ELSE allShops

\* handleCallback up to its first outbound call: the parameter checks and
\* the request of the token exchange
Callback(query) ==
    /\ HasOAuth(rev)
    /\ now < MaxRequests
    /\ now' = now + 1
    /\ UNCHANGED <<rev, envToken, shops, shopIdCounter, imageLogs,
                   imageIdCounter, lastScan, probe, apiKeys, db, ret,
                   nonceStore, clock>>
    /\ IF ~Present(query.shop) \/ ~Present(query.code)
             \/ ~Present(query.state)
       THEN /\ resp' = [Response("callback", 400, 0) EXCEPT
                          !.query = Some(query)]
            /\ UNCHANGED inflight
       ELSE IF ~validateShopDomain(Val(query.shop))
       THEN /\ resp' = [Response("callback", 400, 0) EXCEPT
                          !.query = Some(query)]
            /\ UNCHANGED inflight
       ELSE IF \/ ValidatesNonce(rev)
                    /\ ~validateNonce(nonceStore, Val(query.state),
                                      Val(query.shop), clock).result
               \/ ValidatesTimestamp(rev)
                    /\ query.timestamp # Null
                    /\ ~verifyTimestamp(Val(query.timestamp))
               \/ ValidatesHmac(rev) /\ ~verifyHmac(query)
       THEN /\ resp' = [Response("callback", 401, 0) EXCEPT
                          !.query = Some(query)]
            /\ UNCHANGED inflight
       ELSE IF ~apiKeys
       THEN /\ resp' = [Response("callback", 500, 0) EXCEPT
                          !.query = Some(query)]
            /\ UNCHANGED inflight
       ELSE /\ Cardinality(inflight) < MaxInFlight
            /\ inflight' = inflight
                  \cup {[rid |-> now + 1, shop |-> Val(query.shop)]}
            /\ resp' = [Response("callback", 0, now + 1) EXCEPT
                          !.query = Some(query),
                          !.calls = <<"access_token">>]

\* handleCallback from the answer of the token exchange on: the upsert of
\* the Shop row and the redirect
TokenExchange(c, out) ==
    /\ c \in inflight
    /\ now < MaxRequests
    /\ now' = now + 1
    /\ inflight' = inflight \ {c}
    /\ UNCHANGED <<rev, envToken, imageLogs, imageIdCounter, lastScan,
                   probe, apiKeys, db, ret,
                   nonceStore, clock>>
    /\ IF out.kind # "ok"
       THEN /\ resp' = [Response("callback", 500, c.rid) EXCEPT
                          !.domain = c.shop]
            /\ UNCHANGED <<shops, shopIdCounter>>
       ELSE \E existingShop \in {getShopByDomain(shops, c.shop)} :
            /\ shops' =
                 IF existingShop # 0
                 THEN updateShopToken(shops, existingShop,
                                      out.access_token, out.scope)
                 ELSE [i \in (DOMAIN shops) \cup {shopIdCounter} |->
                         IF i = shopIdCounter
                         THEN createShop(c.shop, Null, now + 1)
                         ELSE shops[i]]
            /\ shopIdCounter' = IF existingShop # 0 THEN shopIdCounter
                                ELSE shopIdCounter + 1
            /\ resp' = [Response("callback", 302, c.rid) EXCEPT
                          !.domain = c.shop,
                          !.tokenData = Some([access_token |-> out.access_token,
                                              scope |-> out.scope])]

\* the shop parameter of a session check (query or header)
SessionShops == {Null, Some("not-a-shop"), Some("shop-a.myshopify.com")}

\* getShopSession
Session(shop) ==
    /\ HasOAuth(rev)
    /\ now < MaxRequests
    /\ now' = now + 1
    /\ UNCHANGED <<rev, envToken, shops, shopIdCounter, imageLogs,
                   imageIdCounter, lastScan, probe, apiKeys, inflight,
                   db, ret,
                   nonceStore, clock>>
    /\ IF ~Present(shop)
       THEN resp' = Response("session", 400, 0)
       ELSE IF ~validateShopDomain(Val(shop))
       THEN resp' = Response("session", 400, 0)
       ELSE \E shopData \in {getShopByDomain(shops, Val(shop))} :
            IF shopData = 0 \/ shops[shopData].accessToken = Null
            THEN resp' = [Response("session", 401, 0) EXCEPT
                            !.domain = Val(shop)]
            ELSE resp' = [Response("session", 200, 0) EXCEPT
                            !.domain = Val(shop),
                            !.session =
                                Some([shop |-> shops[shopData].domain,
                                      isPro |-> shops[shopData].isPro = 1,
                                      installed |-> TRUE])]

----------------------------------------------------------------------------
(* The specification *)

Domains == {extractDomain(Val(b.url)) : b \in {c \in ScanBodies : c.url # Null}}

Init ==
    /\ rev \in Revisions
    /\ envToken \in BOOLEAN
    /\ shops = <<>>
    /\ shopIdCounter = 1
    /\ imageLogs = <<>>
    /\ imageIdCounter = 1
    /\ now = 0
    /\ resp = Response("none", 0, 0)
    /\ lastScan = [d \in Domains |-> Null]
    /\ probe = <<>>
    /\ apiKeys = TRUE
    /\ inflight = {}
    /\ db = EmptyTables
    /\ ret = NoCall
    /\ nonceStore = <<>>
    /\ clock = 0

ScanRequest == \E body \in ScanBodies : Scan(body)

FixRequest == \E id \in ImageIds, enc \in EncoderOutcomesOf(rev) : Fix(id, enc)

RevertRequest == \E id \in ImageIds : Revert(id)

OptimizeAllRequest == \E shopId \in ShopIds : OptimizeAll(shopId)

SyncRequest == \E id \in ImageIds : Sync(id)

SyncAllRequest == \E shopId \in ShopIds, out \in SyncAllOutcomes :
                     SyncAll(shopId, out)

Next ==
    \/ ScanRequest
    \/ FixRequest
    \/ RevertRequest
    \/ OptimizeAllRequest
    \/ SyncRequest
    \/ SyncAllRequest

Spec == Init /\ [][Next]_vars

----------------------------------------------------------------------------
(* The OAuth handlers next to the scan, in the revisions that have them *)

AuthInit ==
    /\ rev \in {r \in Revisions : HasOAuth(r)}
    /\ envToken \in BOOLEAN
    /\ shops = <<>>
    /\ shopIdCounter = 1
    /\ imageLogs = <<>>
    /\ imageIdCounter = 1
    /\ now = 0
    /\ resp = Response("none", 0, 0)
    /\ lastScan = [d \in Domains |-> Null]
    /\ probe = <<>>
    /\ apiKeys \in BOOLEAN
    /\ inflight = {}
    /\ db = EmptyTables
    /\ ret = NoCall
    /\ nonceStore = <<>>
    /\ clock = 0

CallbackRequest == \E query \in CallbackQueries : Callback(query)

TokenExchangeAnswer ==
    \E c \in inflight, out \in ExchangeOutcomes : TokenExchange(c, out)

SessionRequest == \E shop \in SessionShops : Session(shop)

AuthNext ==
    \/ ScanRequest
    \/ CallbackRequest
    \/ TokenExchangeAnswer
    \/ SessionRequest

AuthSpec == AuthInit /\ [][AuthNext]_vars

----------------------------------------------------------------------------
(* The two IStorage implementations, given the same calls *)

StorageInit ==
    /\ Init
    /\ rev = "sharp"
    /\ envToken = FALSE

\* the arguments of the calls
StoreShops ==
    { InsertShop(domain, Null, Null) : domain \in Domains }
    \cup { InsertShop(domain, Some("shpat_1"), Some("read_products")) :
             domain \in Domains }

StoreShopIds == {1, 2}

StoreImageIds == {1, 2}

StoreImages == {generateMockImages("sharp", "shop-a.myshopify.com")[1]}

StoreStatuses == {"pending", "optimized", "reverted"}

StoreSizes == {Null, Some(200)}

\* a list of rows as the set of its rows: a select without ORDER BY fixes
\* no order
Rows(list) == {list[k] : k \in 1..Len(list)}

CallCreateShop(shop) ==
    /\ now < MaxRequests
    /\ now' = now + 1
    /\ \E d \in {DatabaseCreateShop(db, shop, now + 1)} :
       \E row \in {createShop(shop.domain, shop.lastScanAt, now + 1)} :
          /\ shops' = [i \in (DOMAIN shops) \cup {shopIdCounter} |->
                         IF i = shopIdCounter THEN row ELSE shops[i]]
          /\ shopIdCounter' = shopIdCounter + 1
          /\ db' = d.tables
          /\ ret' = [op |-> "createShop",
                     mem |-> Returned(Some([id |-> shopIdCounter] @@ row)),
                     db |-> d.result]
    /\ UNCHANGED <<rev, envToken, imageLogs, imageIdCounter, resp, lastScan,
                   probe, apiKeys, inflight,
                   nonceStore, clock>>

CallUpdateShopToken(id) ==
    /\ now < MaxRequests
    /\ now' = now + 1
    /\ shops' = updateShopToken(shops, id, "shpat_2", "write_products")
    /\ db' = [db EXCEPT !.shops = updateShopToken(db.shops, id, "shpat_2",
                                                  "write_products")]
    /\ ret' = [op |-> "updateShopToken", mem |-> Returned(Null),
               db |-> Returned(Null)]
    /\ UNCHANGED <<rev, envToken, shopIdCounter, imageLogs, imageIdCounter,
                   resp, lastScan, probe, apiKeys, inflight,
                   nonceStore, clock>>

CallUpdateShopScanTime(id) ==
    /\ now < MaxRequests
    /\ now' = now + 1
    /\ shops' = updateShopScanTime(shops, id, now + 1)
    /\ db' = [db EXCEPT !.shops = updateShopScanTime(db.shops, id, now + 1)]
    /\ ret' = [op |-> "updateShopScanTime", mem |-> Returned(Null),
               db |-> Returned(Null)]
    /\ UNCHANGED <<rev, envToken, shopIdCounter, imageLogs, imageIdCounter,
                   resp, lastScan, probe, apiKeys, inflight,
                   nonceStore, clock>>

CallCreateImageLog(shopId, img) ==
    /\ now < MaxRequests
    /\ now' = now + 1
    /\ \E d \in {DatabaseCreateImageLog(db, shopId, img, now + 1)} :
       \E row \in {createImageLog(imageIdCounter, shopId, img, now + 1)} :
          /\ imageLogs' = [i \in (DOMAIN imageLogs) \cup {imageIdCounter} |->
                             IF i = imageIdCounter THEN row ELSE imageLogs[i]]
          /\ imageIdCounter' = imageIdCounter + 1
          /\ db' = d.tables
          /\ ret' = [op |-> "createImageLog", mem |-> Returned(Some(row)),
                     db |-> d.result]
    /\ UNCHANGED <<rev, envToken, shops, shopIdCounter, resp, lastScan,
                   probe, apiKeys, inflight,
                   nonceStore, clock>>

CallUpdateImageLogStatus(id, status, optimizedSize) ==
    /\ now < MaxRequests
    /\ now' = now + 1
    /\ \E d \in {DatabaseUpdateImageLogStatus(db, id, status, optimizedSize,
                                              now + 1)} :
       \E m \in {MemoryUpdateImageLogStatus(imageLogs, id, status,
                                            optimizedSize, now + 1)} :
          /\ imageLogs' = m.logs
          /\ db' = d.tables
          /\ ret' = [op |-> "updateImageLogStatus", mem |-> m.result,
                     db |-> d.result]
    /\ UNCHANGED <<rev, envToken, shops, shopIdCounter, imageIdCounter, resp,
                   lastScan, probe, apiKeys, inflight,
                   nonceStore, clock>>

CallDeleteImageLogsByShopId(shopId) ==
    /\ now < MaxRequests
    /\ now' = now + 1
    /\ imageLogs' = deleteImageLogsByShopId(imageLogs, shopId)
    /\ db' = [db EXCEPT
                !.imageLogs = deleteImageLogsByShopId(db.imageLogs, shopId)]
    /\ ret' = [op |-> "deleteImageLogsByShopId", mem |-> Returned(Null),
               db |-> Returned(Null)]
    /\ UNCHANGED <<rev, envToken, shops, shopIdCounter, imageIdCounter, resp,
                   lastScan, probe, apiKeys, inflight,
                   nonceStore, clock>>

\* getShopByDomain and getImageLogsByShopId of the shop found
CallLookup(domain) ==
    /\ now < MaxRequests
    /\ now' = now + 1
    /\ \E m \in {getShopByDomain(shops, domain)} :
       \E d \in {getShopByDomain(db.shops, domain)} :
          ret' = [op |-> "lookup",
                  mem |-> Returned(
                     IF m = 0 THEN Null
                     ELSE Some([shop |-> [id |-> m] @@ shops[m],
                                images |-> Rows(getImageLogsByShopId(
                                                    imageLogs, m))])),
                  db |-> Returned(
                     IF d = 0 THEN Null
                     ELSE Some([shop |-> [id |-> d] @@ db.shops[d],
                                images |-> Rows(getImageLogsByShopId(
                                                    db.imageLogs, d))]))]
    /\ UNCHANGED <<rev, envToken, shops, shopIdCounter, imageLogs,
                   imageIdCounter, resp, lastScan, probe, apiKeys, inflight,
                   db,
                   nonceStore, clock>>

StorageNext ==
    \/ \E shop \in StoreShops : CallCreateShop(shop)
    \/ \E id \in StoreShopIds : CallUpdateShopToken(id)
    \/ \E id \in StoreShopIds : CallUpdateShopScanTime(id)
    \/ \E shopId \in StoreShopIds, img \in StoreImages :
          CallCreateImageLog(shopId, img)
    \/ \E id \in StoreImageIds, status \in StoreStatuses,
          optimizedSize \in StoreSizes :
          CallUpdateImageLogStatus(id, status, optimizedSize)
    \/ \E shopId \in StoreShopIds : CallDeleteImageLogsByShopId(shopId)
    \/ \E domain \in Domains : CallLookup(domain)

StorageSpec == StorageInit /\ [][StorageNext]_vars

----------------------------------------------------------------------------
(* calculateGrade on its own: the last two calls are kept in probe *)

GradeCounts == {0, 1, 2, 3, 5, 6, 10, 11}

GradeSizes == {0, 1, 5 * MB - 1, 5 * MB, 10 * MB - 1, 10 * MB,
               20 * MB - 1, 20 * MB}

CallGrade(totalHeavyImages, totalSize) ==
    /\ probe' = (IF probe = <<>> THEN <<>> ELSE <<probe[Len(probe)]>>)
                 \o << [totalHeavyImages |-> totalHeavyImages,
                        totalSize |-> totalSize,
                        grade |-> calculateGrade(rev, totalHeavyImages,
                                                 totalSize)] >>
    /\ UNCHANGED <<rev, envToken, shops, shopIdCounter, imageLogs,
                   imageIdCounter, now, resp, lastScan, apiKeys, inflight,
                   db, ret,
                   nonceStore, clock>>

GradeNext == \E totalHeavyImages \in GradeCounts, totalSize \in GradeSizes :
                 CallGrade(totalHeavyImages, totalSize)

GradeSpec == Init /\ [][GradeNext]_vars

----------------------------------------------------------------------------
(* Overlapping requests on DatabaseStorage *)

\* With DatabaseStorage every store call is a query the handler awaits, and
\* another request may be served before it is answered. A handler is cut at
\* these calls (the createImageLog calls of one scan are taken together) and
\* at its outbound fetch; inflight holds the requests that are under way.
Task(rid, op, pc) ==
    [rid |-> rid, op |-> op, pc |-> pc, domain |-> "", shopId |-> 0,
     existingImages |-> 0, fetched |-> <<>>, id |-> 0, originalSize |-> 0]

\* the task, moved on
Proceed(task, next) == (inflight \ {task}) \cup {next}

\* scan bodies of the overlapping scans: no url, or the url of one shop
ConcBodies == { [url |-> Null], [url |-> Some(<<"shop-a.myshopify.com">>)] }

\* the ids a fix can name: the first MaxTargets rows, and an id no row has
ConcImageIds ==
    LET ids == Ascending(DOMAIN db.imageLogs)
    IN {ids[k] : k \in 1..(IF Len(ids) < MaxTargets
                           THEN Len(ids) ELSE MaxTargets)}
       \cup {db.imageSeq}

\* scan: safeParse, extractDomain, await getShopByDomain
ScanBegin(body) ==
    /\ now < MaxRequests
    /\ Cardinality(inflight) < MaxInFlight
    /\ now' = now + 1
    /\ UNCHANGED <<rev, envToken, shops, shopIdCounter, imageLogs,
                   imageIdCounter, lastScan, probe, apiKeys, db, ret,
                   nonceStore, clock>>
    /\ IF ~scanRequestSchema(body)
       THEN /\ resp' = Response("scan", 400, 0)
            /\ UNCHANGED inflight
       ELSE \E domain \in {extractDomain(Val(body.url))} :
               /\ inflight' = inflight \cup
                     { [Task(now + 1, "scan", "shop") EXCEPT
                           !.domain = domain,
                           !.shopId = getShopByDomain(db.shops, domain)] }
               /\ UNCHANGED resp

\* scan: await createShop, or await updateShopScanTime
ScanShop(task) ==
    /\ task.op = "scan" /\ task.pc = "shop"
    /\ UNCHANGED <<rev, envToken, shops, shopIdCounter, imageLogs,
                   imageIdCounter, now, lastScan, probe, apiKeys, ret,
                   nonceStore, clock>>
    /\ IF task.shopId = 0
       THEN \E made \in {DatabaseCreateShop(
                            db, InsertShop(task.domain, Null, Null), now)} :
               IF made.result.threw
               THEN /\ resp' = Response("scan", 500, 0)
                    /\ inflight' = inflight \ {task}
                    /\ UNCHANGED db
               ELSE /\ db' = made.tables
                    /\ inflight' = Proceed(task,
                          [task EXCEPT !.pc = "existing",
                                       !.shopId = db.shopSeq])
                    /\ UNCHANGED resp
       ELSE /\ db' = [db EXCEPT
                        !.shops = updateShopScanTime(db.shops, task.shopId,
                                                     now)]
            /\ inflight' = Proceed(task, [task EXCEPT !.pc = "existing"])
            /\ UNCHANGED resp

\* scan: await getImageLogsByShopId; without a token fetchShopifyProducts
\* returns the mock catalog with no call to await
ScanExisting(task) ==
    /\ task.op = "scan" /\ task.pc = "existing"
    /\ UNCHANGED <<rev, envToken, shops, shopIdCounter, imageLogs,
                   imageIdCounter, now, resp, lastScan, probe, apiKeys, db,
                   ret, nonceStore, clock>>
    /\ \E existingImages \in
            {Len(getImageLogsByShopId(db.imageLogs, task.shopId))} :
          inflight' = Proceed(task,
             IF HasAccessToken(rev, db.shops[task.shopId])
             THEN [task EXCEPT !.pc = "fetch",
                               !.existingImages = existingImages]
             ELSE [task EXCEPT
                      !.pc = IF existingImages > 0 THEN "delete" ELSE "insert",
                      !.existingImages = existingImages,
                      !.fetched = fetchShopifyProducts(rev, task.domain,
                                                       FALSE, NoUpstream)])

\* scan: await fetchShopifyProducts, with a token
ScanFetch(task, upstream) ==
    /\ task.op = "scan" /\ task.pc = "fetch"
    /\ UNCHANGED <<rev, envToken, shops, shopIdCounter, imageLogs,
                   imageIdCounter, now, resp, lastScan, probe, apiKeys, db,
                   ret, nonceStore, clock>>
    /\ inflight' = Proceed(task,
          [task EXCEPT
              !.pc = IF task.existingImages > 0 THEN "delete" ELSE "insert",
              !.fetched = fetchShopifyProducts(rev, task.domain, TRUE,
                                               upstream)])

\* scan: if (existingImages.length > 0) await deleteImageLogsByShopId
ScanDelete(task) ==
    /\ task.op = "scan" /\ task.pc = "delete"
    /\ UNCHANGED <<rev, envToken, shops, shopIdCounter, imageLogs,
                   imageIdCounter, now, resp, lastScan, probe, apiKeys, ret,
                   nonceStore, clock>>
    /\ db' = [db EXCEPT
                !.imageLogs = deleteImageLogsByShopId(db.imageLogs,
                                                      task.shopId)]
    /\ inflight' = Proceed(task, [task EXCEPT !.pc = "insert"])

\* scan: await createImageLog for each fetched image, and the answer
ScanInsert(task) ==
    /\ task.op = "scan" /\ task.pc = "insert"
    /\ UNCHANGED <<rev, envToken, shops, shopIdCounter, imageLogs,
                   imageIdCounter, now, lastScan, probe, apiKeys, ret,
                   nonceStore, clock>>
    /\ \E logs1 \in {CreateRows(db.imageLogs, db.imageSeq, task.shopId,
                                task.fetched, now)} :
       \E images \in
            {[k \in 1..Len(task.fetched) |-> logs1[db.imageSeq + k - 1]]} :
       \E result \in {ScanResult(rev, images)} :
          /\ db' = [db EXCEPT !.imageLogs = logs1,
                              !.imageSeq = db.imageSeq + Len(task.fetched)]
          /\ resp' = [Response("scan", 200, task.shopId) EXCEPT
                        !.shopId = task.shopId,
                        !.fetched = task.fetched,
                        !.images = result.images,
                        !.totalHeavyImages = result.totalHeavyImages,
                        !.grade = result.grade]
          /\ inflight' = inflight \ {task}

\* fix: await getImageLogById, the 404 and the 400
FixBegin(id) ==
    /\ now < MaxRequests
    /\ Cardinality(inflight) < MaxInFlight
    /\ now' = now + 1
    /\ UNCHANGED <<rev, envToken, shops, shopIdCounter, imageLogs,
                   imageIdCounter, lastScan, probe, apiKeys, db, ret,
                   nonceStore, clock>>
    /\ IF id \notin DOMAIN db.imageLogs
       THEN /\ resp' = Response("fix", 404, id)
            /\ UNCHANGED inflight
       ELSE IF FixRejectsOptimized(rev) /\ db.imageLogs[id].status = "optimized"
       THEN /\ resp' = Response("fix", 400, id)
            /\ UNCHANGED inflight
       ELSE /\ inflight' = inflight \cup
                  { [Task(now + 1, "fix", "update") EXCEPT
                        !.id = id,
                        !.originalSize = db.imageLogs[id].originalSize] }
            /\ UNCHANGED resp

\* fix: await updateImageLogStatus, and res.json of what it returned
FixUpdate(task) ==
    /\ task.op = "fix" /\ task.pc = "update"
    /\ UNCHANGED <<rev, envToken, shops, shopIdCounter, imageLogs,
                   imageIdCounter, now, lastScan, probe, apiKeys, ret,
                   nonceStore, clock>>
    /\ \E updated \in
          {DatabaseUpdateImageLogStatus(
              db, task.id, "optimized",
              Some(EstimateOptimizedSize(rev, task.originalSize)), now)} :
          /\ db' = updated.tables
          /\ resp' = [Response("fix", 200, task.id) EXCEPT
                        !.row = updated.result.value]
          /\ inflight' = inflight \ {task}

\* the revision that deletes and creates the rows on every scan
ConcInit == Init /\ rev = "rescan"

ScanArrives == \E body \in ConcBodies : ScanBegin(body)

ScanShopStep == \E task \in inflight : ScanShop(task)

ScanExistingStep == \E task \in inflight : ScanExisting(task)

ScanFetchStep == \E task \in inflight, upstream \in UpstreamOutcomes :
                    ScanFetch(task, upstream)

ScanDeleteStep == \E task \in inflight : ScanDelete(task)

ScanInsertStep == \E task \in inflight : ScanInsert(task)

FixArrives == \E id \in ConcImageIds : FixBegin(id)

FixUpdateStep == \E task \in inflight : FixUpdate(task)

ConcNext ==
    \/ ScanArrives
    \/ ScanShopStep
    \/ ScanExistingStep
    \/ ScanFetchStep
    \/ ScanDeleteStep
    \/ ScanInsertStep
    \/ FixArrives
    \/ FixUpdateStep

ConcSpec == ConcInit /\ [][ConcNext]_vars

----------------------------------------------------------------------------
(* The nonce store *)

\* what generateNonce may return
Nonces == {"n1", "n2"}

\* the shops a nonce is validated for
NonceShops == {"shop-a.myshopify.com", "shop-b.myshopify.com"}

\* the time that passes between two calls: five minutes, or a millisecond
\* more
Elapse == {300000, 300001}

\* handleInstall, with the nonce that generateNonce returned
Install(shop, nonce) ==
    /\ HasOAuth(rev)
    /\ now < MaxRequests
    /\ now' = now + 1
    /\ UNCHANGED <<rev, envToken, shops, shopIdCounter, imageLogs,
                   imageIdCounter, lastScan, probe, apiKeys, inflight,
                   db, ret, clock>>
    /\ IF ~Present(shop)
       THEN /\ resp' = Response("install", 400, 0)
            /\ UNCHANGED nonceStore
       ELSE IF ~validateShopDomain(Val(shop))
       THEN /\ resp' = Response("install", 400, 0)
            /\ UNCHANGED nonceStore
       ELSE IF ~apiKeys
       THEN /\ resp' = Response("install", 500, 0)
            /\ UNCHANGED nonceStore
       ELSE /\ nonceStore' = storeNonce(nonceStore, nonce, Val(shop), clock)
            /\ resp' = [Response("install", 302, 0) EXCEPT
                          !.domain = Val(shop),
                          !.query = Some(nonce)]

\* one call of validateNonce
CallValidateNonce(nonce, shop) ==
    /\ \E v \in {validateNonce(nonceStore, nonce, shop, clock)} :
          /\ nonceStore' = v.store
          /\ ret' = [op |-> "validateNonce", nonce |-> nonce, shop |-> shop,
                     result |-> v.result]
    /\ UNCHANGED <<rev, envToken, shops, shopIdCounter, imageLogs,
                   imageIdCounter, now, resp, lastScan, probe, apiKeys,
                   inflight, db, clock>>

\* time passes
Tick(ms) ==
    /\ clock \div 300000 < MaxTicks
    /\ clock' = clock + ms
    /\ UNCHANGED <<rev, envToken, shops, shopIdCounter, imageLogs,
                   imageIdCounter, now, resp, lastScan, probe, apiKeys,
                   inflight, db, ret, nonceStore>>

\* the revision of server/shopify.ts
NonceInit == AuthInit /\ rev = "sync" /\ envToken = FALSE

InstallRequest == \E shop \in SessionShops, nonce \in Nonces :
                     Install(shop, nonce)

ValidateNonceCall == \E nonce \in Nonces, shop \in NonceShops :
                        CallValidateNonce(nonce, shop)

TimePasses == \E ms \in Elapse : Tick(ms)

NonceNext ==
    \/ InstallRequest
    \/ ValidateNonceCall
    \/ TimePasses

NonceSpec == NonceInit /\ [][NonceNext]_vars

----------------------------------------------------------------------------
(* extractDomain on built urls, and scans of any text *)

Hosts == {"shop-a.myshopify.com", "Shop-A.myshopify.com",
          "shop-b.myshopify.com"}

\* the urls with or without scheme, "www." and path
UrlInputs == [scheme : Schemes \cup {""}, www : BOOLEAN, host : Hosts,
              path : BOOLEAN]

Build(input) ==
    (IF input.scheme # "" THEN <<input.scheme>> ELSE <<>>)
    \o (IF input.www THEN <<"www.">> ELSE <<>>)
    \o <<input.host>>
    \o (IF input.path THEN <<"/products">> ELSE <<>>)

\* one call of extractDomain, and one more on what it returned
CallExtractDomain(input) ==
    /\ \E domain \in {extractDomain(Build(input))} :
          probe' = << [input |-> input,
                       domain |-> domain,
                       again |-> extractDomain(<<domain>>)] >>
    /\ UNCHANGED <<rev, envToken, shops, shopIdCounter, imageLogs,
                   imageIdCounter, now, resp, lastScan, apiKeys, inflight,
                   db, ret,
                   nonceStore, clock>>

\* scan bodies: no url, the empty text, free text, a host name
UrlBodies ==
    { [url |-> Null],
      [url |-> Some(<<>>)],
      [url |-> Some(<<"My Shop">>)],
      [url |-> Some(<<"shop-a.myshopify.com">>)] }

ExtractRequest == \E input \in UrlInputs : CallExtractDomain(input)

UrlScanRequest == \E body \in UrlBodies : Scan(body)

UrlNext ==
    \/ ExtractRequest
    \/ UrlScanRequest

\* the encoder revision, with no process-wide token
UrlInit == Init /\ rev = "sharp" /\ envToken = FALSE

UrlSpec == UrlInit /\ [][UrlNext]_vars

----------------------------------------------------------------------------
(* Properties *)

\* a step that serves a request of the given kind
Served(op) == now' = now + 1 /\ resp'.op = op

\* a step that serves a request of the given kind on image id
ServedOn(op, id) == Served(op) /\ resp'.target = id

\* the rows of a shop, as a set of ids
RowIdsOf(logs, shopId) == {i \in DOMAIN logs : logs[i].shopId = shopId}

\* C1: in every reachable state every ImageLog row has status "optimized"
\* if and only if its optimizedSize and its optimizedAt are both non-null.
C1_OptimizedIffSizeAndTime ==
    \A i \in DOMAIN imageLogs :
        (imageLogs[i].status = "optimized")
            <=> (imageLogs[i].optimizedSize # Null
                   /\ imageLogs[i].optimizedAt # Null)

\* C2: a fix request on an image that is already optimized is answered
\* with 400 and leaves the row as it was.
C2_FixOnOptimizedIs400 ==
    [][\A id \in DOMAIN imageLogs :
          (ServedOn("fix", id) /\ imageLogs[id].status = "optimized")
             => (resp'.code = 400 /\ imageLogs'[id] = imageLogs[id])]_vars

\* C3: a revert request on an image that is not optimized (pending or
\* reverted) is answered with 400 and changes no row; a revert request on
\* an unknown id is answered with 404 and changes no row.
C3_RevertRejected ==
    [][Served("revert")
          => LET id == resp'.target
             IN /\ id \notin DOMAIN imageLogs
                    => (resp'.code = 404 /\ imageLogs' = imageLogs)
                /\ (id \in DOMAIN imageLogs
                      /\ imageLogs[id].status # "optimized")
                    => (resp'.code = 400 /\ imageLogs' = imageLogs)]_vars

\* C3 witness: a revert of a row that was already reverted got its 400.
C3_Witness ==
    /\ resp.op = "revert"
    /\ resp.code = 400
    /\ resp.target \in DOMAIN imageLogs
    /\ imageLogs[resp.target].status = "reverted"

\* C4: a revert request on an optimized image sets its status to
\* "reverted" and clears its optimizedSize and optimizedAt to null.
C4_RevertClears ==
    [][\A id \in DOMAIN imageLogs :
          (ServedOn("revert", id) /\ imageLogs[id].status = "optimized")
             => /\ imageLogs'[id].status = "reverted"
                /\ imageLogs'[id].optimizedSize = Null
                /\ imageLogs'[id].optimizedAt = Null]_vars

\* round(x * 0.2), written out: the integer nearest to x / 5
RoundedFifthOf(x) == (2 * x + 5) \div 10

\* C5: in the revisions whose ratio is 0.2, a successful fix of an image
\* that is not optimized, whatever its originalSize, sets status to
\* "optimized", optimizedSize to round(originalSize * 0.2) and optimizedAt,
\* and leaves originalSize as it was.
C5_FixSetsRoundedFifth ==
    [][\A id \in DOMAIN imageLogs :
          (/\ ServedOn("fix", id)
           /\ rev \in {"reset", "rescan"}
           /\ imageLogs[id].status # "optimized"
           /\ resp'.code = 200)
             => /\ imageLogs'[id].status = "optimized"
                /\ imageLogs'[id].optimizedSize
                       = Some(RoundedFifthOf(imageLogs[id].originalSize))
                /\ imageLogs'[id].optimizedAt # Null
                /\ imageLogs'[id].originalSize = imageLogs[id].originalSize]_vars

\* C6: a sync request on an image that is not optimized is answered with
\* 400, makes no outbound call and does not mark the row as synced.
C6_SyncOnUnoptimizedIs400 ==
    [][\A id \in DOMAIN imageLogs :
          (ServedOn("sync", id) /\ imageLogs[id].status # "optimized")
             => /\ resp'.code = 400
                /\ resp'.calls = <<>>
                /\ imageLogs' = imageLogs]_vars

\* C6 witness: a sync of a pending row got its 400 and the row is unsynced.
C6_Witness ==
    /\ resp.op = "sync"
    /\ resp.code = 400
    /\ resp.target \in DOMAIN imageLogs
    /\ imageLogs[resp.target].status = "pending"
    /\ imageLogs[resp.target].syncStatus = Null

\* C7: after a completed scan the rows of the scanned shop are one fresh
\* row per fetched image, in order, each pending with optimizedSize and
\* optimizedAt null, whatever was done to the shop's rows before.
C7_ScanLeavesFreshPendingRows ==
    [][(Served("scan") /\ resp'.code = 200)
          => LET rows == getImageLogsByShopId(imageLogs', resp'.shopId)
             IN /\ Len(rows) = Len(resp'.fetched)
                /\ \A k \in 1..Len(rows) :
                     /\ rows[k].id \notin DOMAIN imageLogs
                     /\ rows[k].imageName = resp'.fetched[k].imageName
                     /\ rows[k].originalSize = resp'.fetched[k].originalSize
                     /\ rows[k].status = "pending"
                     /\ rows[k].optimizedSize = Null
                     /\ rows[k].optimizedAt = Null]_vars

\* C8: two scans of one domain, both without an access token, answer with
\* image lists of the same names and sizes in the same order, whatever
\* was done between them.
C8_MockScanRepeats ==
    [][\A d \in Domains :
          (/\ lastScan[d] # Null
           /\ lastScan'[d] # Null
           /\ ~Val(lastScan[d]).token
           /\ ~Val(lastScan'[d]).token)
             => Val(lastScan'[d]).shape = Val(lastScan[d]).shape]_vars

\* C8 witness: a domain was scanned a second time without a token while
\* one of its rows from the first scan had been fixed and reverted.
C8_Witness ==
    /\ resp.op = "scan"
    /\ resp.code = 200
    /\ \E d \in Domains :
         /\ lastScan[d] # Null
         /\ Val(lastScan[d]).scans >= 2
         /\ ~Val(lastScan[d]).token
         /\ shops[resp.shopId].domain = d
    /\ \E i \in RowIdsOf(imageLogs, resp.shopId) :
         imageLogs[i].status = "reverted"

\* is the list sorted by descending originalSize
SortedDescending(images) ==
    \A k \in 1..(Len(images) - 1) :
        images[k].originalSize >= images[k + 1].originalSize

\* the ids of the rows of a list, and whether none is listed twice
ListedRowIds(images) == {images[k].id : k \in 1..Len(images)}
NoRowTwice(images) == Cardinality(ListedRowIds(images)) = Len(images)

\* the rows of the scanned shop that are over the heavy threshold
HeavyRowIds ==
    {i \in RowIdsOf(imageLogs, resp.shopId) :
        imageLogs[i].originalSize > HeavyThreshold(rev)}

\* C9 as stated: the images of a scan result are exactly the shop's heavy
\* images, sorted by descending originalSize, and totalHeavyImages is the
\* length of that list.
C9_ImagesAreHeavySubset ==
    (resp.op = "scan" /\ resp.code = 200)
       => /\ ListedRowIds(resp.images) = HeavyRowIds
          /\ NoRowTwice(resp.images)
          /\ SortedDescending(resp.images)
          /\ resp.totalHeavyImages = Len(resp.images)

\* C9 amended: the images of a scan result are sorted by descending
\* originalSize and totalHeavyImages is the number of the shop's images
\* over the heavy threshold; the list is exactly those heavy images in the
\* revisions with the 500 KB threshold and every image of the shop in the
\* revisions with the 1 MB threshold.
C9_ImagesSortedHeavyCounted ==
    (resp.op = "scan" /\ resp.code = 200)
       => /\ ListedRowIds(resp.images)
               = (IF rev \in {"reset", "rescan"} THEN HeavyRowIds
                  ELSE RowIdsOf(imageLogs, resp.shopId))
          /\ NoRowTwice(resp.images)
          /\ SortedDescending(resp.images)
          /\ resp.totalHeavyImages = Cardinality(HeavyRowIds)

\* C9 witness: a scan result that lists an image under the threshold next
\* to heavier ones.
C9_Witness ==
    /\ resp.op = "scan"
    /\ resp.code = 200
    /\ resp.totalHeavyImages >= 2
    /\ resp.totalHeavyImages < Len(resp.images)

\* the rank of a grade: a smaller rank is a better grade
GradeRank(g) ==
    CASE g = "A" -> 0 [] g = "B" -> 1 [] g = "C" -> 2
      [] g = "D" -> 3 [] g = "F" -> 4

\* C10: of two calls of calculateGrade, the one with no more heavy images
\* and no more bytes gets a grade at least as good.
C10_GradeMonotonic ==
    \A j, k \in 1..Len(probe) :
        (/\ probe[j].totalHeavyImages <= probe[k].totalHeavyImages
         /\ probe[j].totalSize <= probe[k].totalSize)
           => GradeRank(probe[j].grade) <= GradeRank(probe[k].grade)

\* C10 witness: two calls, the second with more images and more bytes and
\* a strictly worse grade.
C10_Witness ==
    /\ Len(probe) = 2
    /\ probe[1].totalHeavyImages < probe[2].totalHeavyImages
    /\ probe[1].totalSize < probe[2].totalSize
    /\ GradeRank(probe[1].grade) < GradeRank(probe[2].grade)
    /\ probe[1].grade # "A"

\* the rows of the scanned shop that are over the heavy threshold, as a list
HeavyRows ==
    HeavierThan(getImageLogsByShopId(imageLogs, resp.shopId),
                HeavyThreshold(rev))

\* the grade table: 0 heavy is A; at most 2 and under 5 MB is B; at most 5
\* and under 10 MB is C; at most 10 and under 20 MB is D; anything else F
GradeTable(heavy, bytes) ==
    CASE heavy = 0 -> "A"
      [] heavy # 0 /\ heavy <= 2 /\ bytes < 5 * MB -> "B"
      [] heavy # 0 /\ ~(heavy <= 2 /\ bytes < 5 * MB)
            /\ heavy <= 5 /\ bytes < 10 * MB -> "C"
      [] heavy # 0 /\ ~(heavy <= 5 /\ bytes < 10 * MB)
            /\ heavy <= 10 /\ bytes < 20 * MB -> "D"
      [] OTHER -> "F"

\* C11: the grade of a scan result is the grade the table gives for the
\* number of the shop's heavy images and the sum of their bytes.
C11_GradeFromHeavyTable ==
    (resp.op = "scan" /\ resp.code = 200)
       => resp.grade = GradeTable(Len(HeavyRows), SumSizes(HeavyRows))

\* is the callback query one whose shop, code and state are all given and
\* whose shop is a *.myshopify.com name
WellFormed(q) ==
    /\ Present(q.shop) /\ Present(q.code) /\ Present(q.state)
    /\ Val(q.shop) = "shop-a.myshopify.com"

\* C12: a callback that does not complete creates no Shop row and changes
\* none; it is answered 400 when a parameter is missing or the shop is not
\* a shop domain, and with an error status when the token exchange fails.
C12_FailedCallbackWritesNoShop ==
    [][Served("callback")
          => /\ resp'.code # 302
                  => (shops' = shops /\ shopIdCounter' = shopIdCounter)
             /\ (resp'.query # Null /\ ~WellFormed(Val(resp'.query)))
                  => resp'.code = 400
             /\ (inflight' # inflight /\ resp'.tokenData = Null
                   /\ resp'.query = Null)
                  => resp'.code = 500]_vars

\* C12 witness: a callback for "not-a-shop" got its 400 while the store
\* held a shop with a token.
C12_Witness ==
    /\ resp.op = "callback"
    /\ resp.code = 400
    /\ resp.query # Null
    /\ Val(resp.query).shop = Some("not-a-shop")
    /\ \E i \in DOMAIN shops : shops[i].accessToken # Null

\* C13: when a callback for shop S completes, the Shop row of S holds the
\* access token and the scope the token exchange returned, whether the row
\* existed before or not.
C13_CallbackStoresToken ==
    [][(Served("callback") /\ resp'.code = 302)
          => LET id == getShopByDomain(shops', resp'.domain)
             IN /\ id # 0
                /\ shops'[id].accessToken
                     = Some(Val(resp'.tokenData).access_token)
                /\ shops'[id].scope = Some(Val(resp'.tokenData).scope)]_vars

\* is the timestamp parameter given and not within 60 seconds of the clock
Stale(q) ==
    /\ q.timestamp # Null
    /\ \/ ~Val(q.timestamp).number
       \/ Val(q.timestamp).age > 60
       \/ Val(q.timestamp).age < 0 - 60

\* C14 as stated: with the credentials configured, a well-formed callback
\* goes on to the token exchange whatever its state, timestamp and hmac.
C14_CallbackSkipsAllChecks ==
    [][(Served("callback") /\ resp'.query # Null
          /\ WellFormed(Val(resp'.query)) /\ apiKeys)
          => (resp'.code = 0 /\ resp'.calls = <<"access_token">>)]_vars

\* C14 amended: with the credentials configured, a well-formed callback
\* goes on to the token exchange whatever its state and hmac; its timestamp
\* is ignored by src/server/shopify.ts, while src/Shopimage/server/shopify.ts
\* answers a stale or non-numeric timestamp with 401 and makes no exchange.
C14_CallbackSkipsNonceAndHmac ==
    [][(Served("callback") /\ resp'.query # Null
          /\ WellFormed(Val(resp'.query)) /\ apiKeys)
          => IF rev = "sharp" /\ Stale(Val(resp'.query))
             THEN /\ resp'.code = 401
                  /\ resp'.calls = <<>>
                  /\ inflight' = inflight
             ELSE /\ resp'.code = 0
                  /\ resp'.calls = <<"access_token">>
                  /\ inflight' # inflight]_vars

\* C14 witness: a callback with a forged state, a forged hmac and a stale
\* timestamp went on to the token exchange.
C14_Witness ==
    /\ resp.op = "callback"
    /\ resp.calls = <<"access_token">>
    /\ resp.query # Null
    /\ Val(resp.query).state = Some("forged")
    /\ Val(resp.query).hmac = Some("forged")
    /\ Stale(Val(resp.query))

\* C15: no two Shop rows have the same domain.
C15_OneShopPerDomain ==
    \A i, j \in DOMAIN shops :
        shops[i].domain = shops[j].domain => i = j

\* C15 witness: a callback for a domain completed on a Shop row that a scan
\* created while the callback was awaiting its token exchange.
C15_Witness ==
    /\ resp.op = "callback"
    /\ resp.code = 302
    /\ \E i \in DOMAIN shops :
         /\ shops[i].domain = resp.domain
         /\ shops[i].createdAt > resp.target
         /\ lastScan[resp.domain] # Null

\* C16: every completed scan sets the lastScanAt of the scanned shop to the
\* time of that scan, the scan that creates the shop included.
C16_ScanSetsLastScanAt ==
    [][(Served("scan") /\ resp'.code = 200)
          => shops'[resp'.shopId].lastScanAt = Some(now')]_vars

\* C17: the list fetchShopifyProducts returns to a scan is never empty, so
\* after every completed scan the scanned shop has at least one image row.
C17_FetchNeverEmpty ==
    (resp.op = "scan" /\ resp.code = 200)
       => /\ RowIdsOf(imageLogs, resp.shopId) # {}
          /\ ("products" \in {resp.calls[k] : k \in 1..Len(resp.calls)})
                => resp.fetched # <<>>

\* C18: given the same calls, the in-memory store and the database store
\* return the same results and hold the same rows; in particular a status
\* update of an unknown id throws in both.
C18_StoresEquivalent ==
    /\ ret.mem = ret.db
    /\ shops = db.shops
    /\ imageLogs = db.imageLogs
    /\ (ret.op = "updateImageLogStatus" /\ ret.mem.threw) => ret.db.threw

\* the bytes a fix at the ratio 0.2 saves on the rows of the given ids
RECURSIVE SavedOn(_, _)
SavedOn(logs, ids) ==
    IF ids = {} THEN 0
    ELSE LET i == CHOOSE x \in ids : TRUE
         IN (logs[i].originalSize - RoundedFifthOf(logs[i].originalSize))
              + SavedOn(logs, ids \ {i})

\* the pending rows of a shop, as a set of ids
PendingIdsOf(logs, shopId) ==
    {i \in RowIdsOf(logs, shopId) : logs[i].status = "pending"}

\* C19: optimize-all on a shop leaves none of its images pending, makes
\* each image that was pending optimized with optimizedSize =
\* round(originalSize * 0.2), answers with their number and with the sum of
\* originalSize - optimizedSize over them, and changes no other row.
C19_OptimizeAllFixesPending ==
    [][(Served("optimize-all") /\ resp'.code = 200)
          => LET pending == PendingIdsOf(imageLogs, resp'.shopId)
             IN /\ DOMAIN imageLogs' = DOMAIN imageLogs
                /\ PendingIdsOf(imageLogs', resp'.shopId) = {}
                /\ \A i \in pending :
                     /\ imageLogs'[i].status = "optimized"
                     /\ imageLogs'[i].optimizedSize
                          = Some(RoundedFifthOf(imageLogs[i].originalSize))
                /\ resp'.optimizedCount = Cardinality(pending)
                /\ resp'.totalSaved = SavedOn(imageLogs, pending)
                /\ \A i \in (DOMAIN imageLogs) \ pending :
                     imageLogs'[i] = imageLogs[i]]_vars

FromListing(log) == Len(log.imageName) = 3

\* C21: in the revision with the upstream write, a sync of an optimized
\* image that a scan made from a live product listing, with an access token
\* at hand, attempts the write to the product-image endpoint.
C21_SyncAttemptsUpstreamWrite ==
    [][\A id \in DOMAIN imageLogs :
          (/\ ServedOn("sync", id)
           /\ rev = "sharp"
           /\ imageLogs[id].status = "optimized"
           /\ FromListing(imageLogs[id])
           /\ SyncHasToken(rev, shops[imageLogs[id].shopId]))
             => \E k \in 1..Len(resp'.calls) : resp'.calls[k] = "put"]_vars

\* the host name of a built url in lower case, spelled out
LowerCased(host) ==
    IF host = "Shop-A.myshopify.com" THEN "shop-a.myshopify.com" ELSE host

\* C22: of a url built from an optional scheme, an optional "www.", a host
\* name and an optional path, extractDomain returns the host name in lower
\* case, and returns that again when applied to it.
C22_ExtractDomainBareHost ==
    \A k \in 1..Len(probe) :
        /\ probe[k].domain = LowerCased(probe[k].input.host)
        /\ probe[k].again = probe[k].domain

C22_Witness ==
    \E k \in 1..Len(probe) :
        /\ probe[k].input.scheme = "https://"
        /\ probe[k].input.www
        /\ probe[k].input.path
        /\ probe[k].input.host = "Shop-A.myshopify.com"
        /\ probe[k].domain = "shop-a.myshopify.com"

\* the texts that are neither a url nor a host name
Malformed(body) ==
    /\ body.url # Null
    /\ \/ Val(body.url) = <<>>
       \/ \E k \in 1..Len(Val(body.url)) : ForbiddenHost(Val(body.url)[k])

\* C23: a scan whose url is missing or malformed is answered 400 and
\* creates no shop and no image row.
C23_MalformedScanRejected ==
    [][\A body \in UrlBodies :
          (Scan(body) /\ (body.url = Null \/ Malformed(body)))
             => /\ resp'.code = 400
                /\ shops' = shops
                /\ imageLogs' = imageLogs]_vars

\* C24: validateNonce returns true only for a nonce that is in the store for
\* the same shop and at most ten minutes old; after a validation that
\* returned true or found the nonce expired the nonce is out of the store,
\* and a nonce that is not in the store never validates.
C24_NonceValidatesOnce ==
    [][\A n \in Nonces, shop \in NonceShops :
          CallValidateNonce(n, shop) =>
             /\ ret'.result =>
                   /\ n \in DOMAIN nonceStore
                   /\ nonceStore[n].shop = shop
                   /\ clock - nonceStore[n].createdAt <= NONCE_EXPIRY_MS
             /\ (ret'.result \/ n \in Expired(nonceStore, clock))
                   => n \notin DOMAIN nonceStore'
             /\ n \notin DOMAIN nonceStore => ~ret'.result]_vars

\* a nonce validated when it was exactly ten minutes old, and gone since
C24_Witness ==
    /\ ret.op = "validateNonce"
    /\ ret.result
    /\ ret.nonce \notin DOMAIN nonceStore
    /\ clock = NONCE_EXPIRY_MS

\* the changes of status a row may go through
StatusMoves == { <<"pending", "optimized">>, <<"optimized", "reverted">>,
                 <<"reverted", "optimized">> }

\* C25: the status of a row that exists before and after a request stays or
\* moves along pending -> optimized, optimized -> reverted or
\* reverted -> optimized, and its originalSize and shopId stay.
C25_StatusMovesForward ==
    [][\A id \in DOMAIN imageLogs \cap DOMAIN imageLogs' :
          /\ \/ imageLogs'[id].status = imageLogs[id].status
             \/ <<imageLogs[id].status, imageLogs'[id].status>> \in StatusMoves
          /\ imageLogs'[id].originalSize = imageLogs[id].originalSize
          /\ imageLogs'[id].shopId = imageLogs[id].shopId]_vars

\* the rows of a shop in the tables of the database
DatabaseRows(shopId) == getImageLogsByShopId(db.imageLogs, shopId)

\* C26: once no scan is under way, the rows of the shop last scanned are the
\* images that scan fetched, one row each.
C26_OverlappingScansOneRowEach ==
    (/\ resp.op = "scan" /\ resp.code = 200
     /\ \A task \in inflight : task.op # "scan")
       => Shape(DatabaseRows(resp.shopId)) = Shape(resp.fetched)

\* C27: a fix is answered with success only for a row that is not optimized
\* at the time of its update, so that of two overlapping fixes of a pending
\* row one at most succeeds and optimizedAt is set once.
C27_OverlappingFixesOneSucceeds ==
    [][\A task \in inflight :
          (/\ FixUpdate(task)
           /\ task.id \in DOMAIN db.imageLogs
           /\ db.imageLogs[task.id].status = "optimized")
             => /\ resp'.code = 400
                /\ db'.imageLogs[task.id].optimizedAt
                      = db.imageLogs[task.id].optimizedAt]_vars

\* C28: a fix whose row a scan deleted after the lookup is answered 404 and
\* leaves no row under the id.
C28_FixOfDeletedRowNotFound ==
    [][\A task \in inflight :
          (FixUpdate(task) /\ task.id \notin DOMAIN db.imageLogs)
             => /\ resp'.code = 404
                /\ task.id \notin DOMAIN db'.imageLogs]_vars

\* C29: in the encoder revision a fix stores the fixed-ratio estimate when
\* the encoding fails or no encoded output is smaller than the downloaded
\* original, and a size it took from the encoder is smaller than the
\* downloaded original.
C29_EncoderFallsBackToEstimate ==
    [][\A id \in DOMAIN imageLogs, enc \in EncoderOutcomesOf(rev) :
          (Fix(id, enc) /\ rev = "sharp" /\ resp'.code = 200)
             => /\ (\/ ~enc.ok
                    \/ enc.webp >= enc.original /\ enc.jpeg >= enc.original)
                      => imageLogs'[id].optimizedSize
                            = Some(RoundQuarter(imageLogs[id].originalSize))
                /\ enc.ok => Val(imageLogs'[id].optimizedSize) < enc.original]_vars

\* the shop a request is addressed to: the shop scanned, the shop named in
\* the path, or the shop of the image named in the path (0 if there is none)
Addressed ==
    IF resp'.op = "scan" THEN resp'.shopId
    ELSE IF resp'.op \in {"optimize-all", "sync-all"} THEN resp'.target
    ELSE IF resp'.target \in DOMAIN imageLogs
    THEN imageLogs[resp'.target].shopId
    ELSE 0

\* C30: a scan, optimize-all or sync-all of a shop, and a fix, revert or sync
\* of one of its images, leave the rows and the Shop rows of every other
\* shop as they are, and add none to them.
C30_OtherShopsUntouched ==
    [][(now' = now + 1) =>
          /\ \A i \in DOMAIN imageLogs :
                imageLogs[i].shopId # Addressed
                   => i \in DOMAIN imageLogs' /\ imageLogs'[i] = imageLogs[i]
          /\ \A i \in DOMAIN imageLogs' \ DOMAIN imageLogs :
                imageLogs'[i].shopId = Addressed
          /\ \A j \in DOMAIN shops :
                j # Addressed => j \in DOMAIN shops' /\ shops'[j] = shops[j]
          /\ DOMAIN shops' \subseteq DOMAIN shops \cup {Addressed}]_vars

\* a second scan of one shop went through while another shop had rows
C30_Witness ==
    /\ resp.op = "scan" /\ resp.code = 200
    /\ rev = "rescan"
    /\ shops[resp.shopId].lastScanAt # Null
    /\ \E i \in DOMAIN imageLogs : imageLogs[i].shopId # resp.shopId

====
